---- MODULE Spec2Model ----
(***************************************************************************)
(* State machine of the App component (frontend/src/App.js): the text and  *)
(* webcam analysis workflow.  Every action is one event-handler run on the *)
(* single UI thread, including the re-render and the webcamActive effect   *)
(* (cleanup, then body) that the handler's state updates cause.            *)
(***************************************************************************)
EXTENDS Integers, Sequences, FiniteSets, TLC

\* ---- bounds -------------------------------------------------------------
\* number of webcam activations explored (every activation takes a new timer id)
MaxActivations == 3

\* ---- fixed strings of the program --------------------------------------
TextErrorMsg == "Error occurred while analyzing text"
FaceErrorMsg == "Error occurred while analyzing face"
CaptureFailMsg == "Failed to capture image from webcam"
NoTimer == 0

\* ---- values drawn for the inputs ----------------------------------------
Texts == {"", "I feel great"}
\* getScreenshot(): null (no frame) or a JPEG data URI
NoFrame == ""
Frames == {NoFrame, "data:image/jpeg"}
RespEmotions == {"happy", "neutral"}
\* details is a free string of the response: the service may send any text
RespDetails == {"Upbeat vibes", TextErrorMsg}
RespSongs == {<<>>, <<"Song A">>}
\* a 2xx response body (songs may be absent) or a failure (non-2xx / transport)
FailedResponse ==
    [ok |-> FALSE, emotion |-> "", details |-> "", hasSongs |-> FALSE, songs |-> <<>>]
Responses ==
    [ok : {TRUE}, emotion : RespEmotions, details : RespDetails,
     hasSongs : BOOLEAN, songs : RespSongs]
    \cup {FailedResponse}

VARIABLES
    text, emotion, songs, details, loading, webcamActive,  \* useState cells
    mounted,          \* the App component is mounted
    pendingTimers,    \* ids of setTimeout timers not yet fired or cleared
    timeout,          \* the `timeout` handle held by the latest effect closure
    activations,      \* number of timers created so far (last timer id)
    inflight,         \* axios requests awaiting completion, in dispatch order
    \* history variables
    lastStep,         \* handler branch that ran last
    outcome,          \* phase reached by the last completion (Idle at start)
    prePhase,         \* phase that held when capture was last activated
    captureAttempts,  \* number of getScreenshot attempts so far
    pressedWhileArmed,\* Scan Face was pressed again while the timer was pending
    fault,            \* an exception escaped a handler
    lastResp,         \* response delivered to the last completion
    pressedInFlight,  \* Scan Face was pressed while the image request was in flight
    deactivatedInFlight \* the capture session ended while the image request was in flight

vars == <<text, emotion, songs, details, loading, webcamActive, mounted,
          pendingTimers, timeout, activations, inflight, lastStep, outcome,
          prePhase, captureAttempts, pressedWhileArmed, fault, lastResp,
          pressedInFlight, deactivatedInFlight>>

\* phase of the session as the spec names it
Phase == IF loading THEN "Loading" ELSE outcome

\* ---- pieces of the code -------------------------------------------------
\* res.data.songs || []
SongsOrEmpty(data) == IF data.hasSongs THEN data.songs ELSE <<>>

\* faulty variant: the song list of the response is dropped
SuccessStateNoSongs(data) ==
    [emotion |-> data.emotion, songs |-> <<>>, details |-> data.details]

\* try branch: setEmotion / setSongs / setDetails from the response
SuccessState(data) ==
    [emotion |-> data.emotion, songs |-> SongsOrEmpty(data), details |-> data.details]

\* faulty variant: both catch blocks carry the text message
CatchStateTextOnly(kind) ==
    [emotion |-> "neutral", songs |-> <<>>, details |-> TextErrorMsg]

\* catch branch of analyzeText / analyzeFace
CatchState(kind) ==
    [emotion |-> "neutral", songs |-> <<>>,
     details |-> IF kind = "text" THEN TextErrorMsg ELSE FaceErrorMsg]

\* faulty variant: the button is disabled only while loading
AnalyzeTextDisabledOnlyLoading == loading

\* faulty variant: the button is disabled only for empty text
AnalyzeTextDisabledNoLoading == text = ""

\* disabled={loading || !text}
AnalyzeTextDisabled == loading \/ text = ""

\* faulty variant: the Scan Face button is never disabled
ScanFaceNeverDisabled == FALSE

\* disabled={loading}
ScanFaceDisabled == loading

\* faulty variant: the cleanup does not clear the timer
EffectCleanupNoClear(timers, handle) == timers

\* return () => clearTimeout(timeout)
EffectCleanup(timers, handle) == timers \ {handle}

\* faulty variant: setLoading(true) sits before the if
WebcamEffectAlwaysLoading(active, timers, handle, newId, ld) ==
    IF active
    THEN [timers |-> EffectCleanup(timers, handle) \cup {newId},
          timeout |-> newId, loading |-> TRUE]
    ELSE [timers |-> EffectCleanup(timers, handle),
          timeout |-> NoTimer, loading |-> TRUE]

\* faulty variant: the effect only arms the timer (no setLoading, no cleanup)
WebcamEffectNaive(active, timers, handle, newId, ld) ==
    IF active
    THEN [timers |-> timers \cup {newId}, timeout |-> newId, loading |-> ld]
    ELSE [timers |-> timers, timeout |-> NoTimer, loading |-> ld]

\* useEffect(..., [webcamActive]) re-run: cleanup of the previous run, then the body
WebcamEffect(active, timers, handle, newId, ld) ==
    IF active
    THEN [timers |-> EffectCleanup(timers, handle) \cup {newId},
          timeout |-> newId, loading |-> TRUE]
    ELSE [timers |-> EffectCleanup(timers, handle),
          timeout |-> NoTimer, loading |-> ld]

\* faulty variant: the capture failure branch does not call setLoading(false)
CaptureFailureKeepsLoading(em, sg) ==
    [loading |-> TRUE, emotion |-> "", songs |-> <<>>, details |-> CaptureFailMsg]

\* faulty variant: analyzeFace does not clear the previous result before capturing
CaptureFailureStale(em, sg) ==
    [loading |-> FALSE, emotion |-> em, songs |-> sg, details |-> CaptureFailMsg]

\* analyzeFace, no frame: cleared fields, setLoading(false), setDetails(...), return
CaptureFailure(em, sg) ==
    [loading |-> FALSE, emotion |-> "", songs |-> <<>>, details |-> CaptureFailMsg]

\* faulty variant: setWebcamActive(false) sits inside the try block
FaceCompleteActiveInTry(ok, active) == IF ok THEN FALSE ELSE active

\* analyzeFace, last statement: setWebcamActive(false)
FaceCompleteActive(ok, active) == FALSE

ImageInFlight == \E i \in 1..Len(inflight) : inflight[i] = "image"

Remove(seq, i) == SubSeq(seq, 1, i - 1) \o SubSeq(seq, i + 1, Len(seq))

\* ---- initial state ------------------------------------------------------
Init ==
    /\ text = ""
    /\ emotion = ""
    /\ songs = <<>>
    /\ details = ""
    /\ loading = FALSE
    /\ webcamActive = FALSE
    /\ mounted = TRUE
    /\ pendingTimers = {}
    /\ timeout = NoTimer
    /\ activations = 0
    /\ inflight = <<>>
    /\ lastStep = "init"
    /\ outcome = "Idle"
    /\ prePhase = "Idle"
    /\ captureAttempts = 0
    /\ pressedWhileArmed = FALSE
    /\ fault = FALSE
    /\ lastResp = FailedResponse
    /\ pressedInFlight = FALSE
    /\ deactivatedInFlight = FALSE

\* ---- actions ------------------------------------------------------------
\* onChange={(e) => setText(e.target.value)}
SetText ==
    /\ mounted
    /\ \E t \in Texts : text' = t
    /\ lastStep' = "setText"
    /\ UNCHANGED <<emotion, songs, details, loading, webcamActive, mounted,
                   pendingTimers, timeout, activations, inflight, outcome,
                   prePhase, captureAttempts, pressedWhileArmed, fault,
                   lastResp, pressedInFlight, deactivatedInFlight>>

\* Analyze Text button -> analyzeText up to the await
AnalyzeTextClick ==
    /\ mounted
    /\ IF AnalyzeTextDisabled
       THEN \* a disabled button runs no handler
            /\ lastStep' = "submitIgnored"
            /\ UNCHANGED <<loading, emotion, songs, details, inflight>>
       ELSE /\ loading' = TRUE
            /\ emotion' = ""
            /\ songs' = <<>>
            /\ details' = ""
            /\ inflight' = Append(inflight, "text")
            /\ lastStep' = "submitText"
    /\ UNCHANGED <<text, webcamActive, mounted, pendingTimers, timeout,
                   activations, outcome, prePhase, captureAttempts,
                   pressedWhileArmed, fault, lastResp, pressedInFlight,
                   deactivatedInFlight>>

\* analyzeText after the await: try / catch, then setLoading(false)
TextComplete ==
    \E i \in 1..Len(inflight), resp \in Responses :
        /\ inflight[i] = "text"
        /\ inflight' = Remove(inflight, i)
        /\ lastResp' = resp
        /\ IF mounted
           THEN LET st == IF resp.ok THEN SuccessState(resp) ELSE CatchState("text")
                IN  /\ emotion' = st.emotion
                    /\ songs' = st.songs
                    /\ details' = st.details
                    /\ loading' = FALSE
                    /\ outcome' = IF resp.ok THEN "Result" ELSE "Error"
                    /\ lastStep' = IF resp.ok THEN "textOk" ELSE "textFail"
           ELSE \* state updates on an unmounted component are dropped
                /\ lastStep' = "droppedText"
                /\ UNCHANGED <<emotion, songs, details, loading, outcome>>
        /\ UNCHANGED <<text, webcamActive, mounted, pendingTimers, timeout,
                       activations, prePhase, captureAttempts,
                       pressedWhileArmed, fault, pressedInFlight,
                       deactivatedInFlight>>

\* Scan Face button: onClick={() => setWebcamActive(!webcamActive)}, then the effect
ScanFaceClick ==
    /\ mounted
    /\ IF ScanFaceDisabled
       THEN /\ lastStep' = "scanIgnored"
            /\ pressedWhileArmed' = (pressedWhileArmed \/ pendingTimers # {})
            /\ UNCHANGED <<webcamActive, pendingTimers, timeout, loading,
                           activations, prePhase, deactivatedInFlight>>
       ELSE LET active == ~webcamActive
                eff == WebcamEffect(active, pendingTimers, timeout,
                                    activations + 1, loading)
            IN  /\ active => activations < MaxActivations
                /\ webcamActive' = active
                /\ pendingTimers' = eff.timers
                /\ timeout' = eff.timeout
                /\ loading' = eff.loading
                /\ activations' = IF active THEN activations + 1 ELSE activations
                /\ prePhase' = IF active THEN Phase ELSE prePhase
                /\ pressedWhileArmed' =
                       IF pendingTimers # {} THEN TRUE
                       ELSE IF active THEN FALSE ELSE pressedWhileArmed
                /\ deactivatedInFlight' =
                       (deactivatedInFlight \/ (~active /\ ImageInFlight))
                /\ lastStep' = IF active THEN "scanOn" ELSE "scanOff"
    /\ pressedInFlight' = (pressedInFlight \/ ImageInFlight)
    /\ UNCHANGED <<text, emotion, songs, details, mounted, inflight, outcome,
                   captureAttempts, fault, lastResp>>

\* the timer callback: analyzeFace up to the await (or the early return)
TimerExpiry ==
    \E id \in pendingTimers, frame \in Frames :
        /\ pendingTimers' = pendingTimers \ {id}
        /\ captureAttempts' = captureAttempts + 1
        /\ IF ~mounted
           THEN \* webcamRef.current is null: getScreenshot throws, updates dropped
                /\ fault' = TRUE
                /\ lastStep' = "captureFault"
                /\ UNCHANGED <<emotion, songs, details, loading, inflight, outcome,
                               pressedInFlight, deactivatedInFlight>>
           ELSE IF ~webcamActive
           THEN \* Webcam not rendered: the fields are cleared, then the call throws
                /\ loading' = TRUE
                /\ emotion' = ""
                /\ songs' = <<>>
                /\ details' = ""
                /\ fault' = TRUE
                /\ lastStep' = "captureFault"
                /\ UNCHANGED <<inflight, outcome, pressedInFlight,
                               deactivatedInFlight>>
           ELSE IF frame = NoFrame
           THEN LET st == CaptureFailure(emotion, songs)
                IN  /\ loading' = st.loading
                    /\ emotion' = st.emotion
                    /\ songs' = st.songs
                    /\ details' = st.details
                    /\ outcome' = "Error"
                    /\ lastStep' = "captureFail"
                    /\ UNCHANGED <<inflight, fault, pressedInFlight,
                                   deactivatedInFlight>>
           ELSE /\ loading' = TRUE
                /\ emotion' = ""
                /\ songs' = <<>>
                /\ details' = ""
                /\ inflight' = Append(inflight, "image")
                /\ pressedInFlight' = FALSE
                /\ deactivatedInFlight' = FALSE
                /\ lastStep' = "captureOk"
                /\ UNCHANGED <<outcome, fault>>
        /\ UNCHANGED <<text, webcamActive, mounted, timeout, activations,
                       prePhase, pressedWhileArmed, lastResp>>

\* analyzeFace after the await: try / catch, setLoading(false),
\* setWebcamActive(false), then the effect re-run that this change causes
FaceComplete ==
    \E i \in 1..Len(inflight), resp \in Responses :
        /\ inflight[i] = "image"
        /\ inflight' = Remove(inflight, i)
        /\ lastResp' = resp
        /\ IF mounted
           THEN LET st == IF resp.ok THEN SuccessState(resp) ELSE CatchState("image")
                    active == FaceCompleteActive(resp.ok, webcamActive)
                    eff == IF active # webcamActive
                           THEN WebcamEffect(active, pendingTimers, timeout,
                                             activations + 1, FALSE)
                           ELSE [timers |-> pendingTimers, timeout |-> timeout,
                                 loading |-> FALSE]
                IN  /\ emotion' = st.emotion
                    /\ songs' = st.songs
                    /\ details' = st.details
                    /\ loading' = eff.loading
                    /\ webcamActive' = active
                    /\ pendingTimers' = eff.timers
                    /\ timeout' = eff.timeout
                    /\ outcome' = IF resp.ok THEN "Result" ELSE "Error"
                    /\ lastStep' = IF resp.ok THEN "faceOk" ELSE "faceFail"
           ELSE \* state updates on an unmounted component are dropped
                /\ lastStep' = "droppedImage"
                /\ UNCHANGED <<emotion, songs, details, loading, webcamActive,
                               pendingTimers, timeout, outcome>>
        /\ UNCHANGED <<text, mounted, activations, prePhase, captureAttempts,
                       pressedWhileArmed, fault, pressedInFlight,
                       deactivatedInFlight>>

\* the component is unmounted: the effect's cleanup runs, the state is gone
Teardown ==
    /\ mounted
    /\ mounted' = FALSE
    /\ pendingTimers' = EffectCleanup(pendingTimers, timeout)
    /\ deactivatedInFlight' = (deactivatedInFlight \/ ImageInFlight)
    /\ lastStep' = "teardown"
    /\ UNCHANGED <<text, emotion, songs, details, loading, webcamActive, timeout,
                   activations, inflight, outcome, prePhase, captureAttempts,
                   pressedWhileArmed, fault, lastResp, pressedInFlight>>

Next ==
    \/ SetText
    \/ AnalyzeTextClick
    \/ TextComplete
    \/ ScanFaceClick
    \/ TimerExpiry
    \/ FaceComplete
    \/ Teardown

Spec == Init /\ [][Next]_vars

TypeOK ==
    /\ text \in Texts
    /\ loading \in BOOLEAN
    /\ webcamActive \in BOOLEAN
    /\ mounted \in BOOLEAN
    /\ pendingTimers \subseteq 1..activations
    /\ timeout \in 0..activations
    /\ captureAttempts \in 0..activations
    /\ Phase \in {"Idle", "Loading", "Result", "Error"}

\* the browser fires a pending timer
TimerFairSpec == Spec /\ WF_vars(TimerExpiry)

\* the browser fires a pending timer and every dispatched request settles
FairSpec ==
    Spec /\ WF_vars(TimerExpiry) /\ WF_vars(TextComplete) /\ WF_vars(FaceComplete)

\* ---- helpers of the properties -------------------------------------------
\* a pending timer was cancelled by this step (it did not fire)
TimerCancelledStep ==
    /\ pendingTimers # {}
    /\ pendingTimers' = {}
    /\ captureAttempts' = captureAttempts

\* the session fields are the ones the last image completion had to produce
ImageOutcomeApplied ==
    /\ ~loading
    /\ IF lastResp.ok
       THEN /\ Phase = "Result"
            /\ emotion = lastResp.emotion
            /\ details = lastResp.details
            /\ songs = IF lastResp.hasSongs THEN lastResp.songs ELSE <<>>
       ELSE /\ Phase = "Error"
            /\ emotion = "neutral"
            /\ details = FaceErrorMsg
            /\ songs = <<>>

\* ---- claims ---------------------------------------------------------------

\* C1: whenever the loading flag is set, songs is empty and emotion is unset,
\* the armed window between capture activation and timer expiry included.
C1_LoadingHidesResult ==
    (mounted /\ loading) => (songs = <<>> /\ emotion = "")

\* C2: at most one remote analysis request (text or image) is in flight in
\* every reachable state.
C2_OneRequestInFlight == Len(inflight) <= 1

\* C2 witness: a request is in flight and a trigger pressed meanwhile was ignored.
C2_Witness == mounted /\ Len(inflight) = 1 /\ lastStep = "scanIgnored"

\* C3: after a timer expiry at which the camera returned no frame, the capture
\* session is inactive (webcamActive is false, so the Webcam is not rendered).
C3_CaptureFailureDeactivates == lastStep = "captureFail" => ~webcamActive

\* C4: a deactivation while the timer is pending leaves the phase that held
\* before the activation, and never Loading.
C4_DeactivateRestoresPhase ==
    [][TimerCancelledStep => (Phase' = prePhase /\ Phase' # "Loading")]_vars

\* C5: a timer is pending only while the capture session is active and the
\* component is mounted (deactivation and teardown cancel it), and a frame
\* capture is attempted only in such a state.
C5_CancelledTimerNeverCaptures ==
    [][/\ (~mounted' \/ ~webcamActive') => pendingTimers' = {}
       /\ captureAttempts' # captureAttempts => (mounted /\ webcamActive)]_vars

\* C5 witness: the component was torn down while a timer was pending; that
\* activation has no capture attempt.
C5_Witness ==
    ~mounted /\ pendingTimers = {} /\ captureAttempts < activations /\ ~fault

\* C6: at most one capture timer is pending in every reachable state.
C6_AtMostOneTimer == Cardinality(pendingTimers) <= 1

\* C6 witness: a timer is pending after the capture session was re-armed.
C6_Witness == Cardinality(pendingTimers) = 1 /\ activations >= 2

\* C7: pressing Scan Face again before the timer expires changes nothing: one
\* timer stays armed, every activation has exactly one timer, which is pending
\* or has made its one capture attempt, and under timer fairness the attempt
\* is made unless the component is torn down first.
C7_SecondActivateIsNoOp ==
    /\ [](  (mounted /\ pressedWhileArmed)
            => /\ Cardinality(pendingTimers) <= 1
               /\ Cardinality(pendingTimers) + captureAttempts = activations)
    /\ (mounted /\ pressedWhileArmed /\ pendingTimers # {})
         ~> (~mounted \/ (pendingTimers = {} /\ captureAttempts = activations))

\* C7 witness: the capture was attempted after Scan Face had been pressed
\* again during the armed window.
C7_Witness ==
    /\ mounted /\ pressedWhileArmed
    /\ lastStep \in {"captureOk", "captureFail"}
    /\ captureAttempts = activations

C9_FailureFallback ==
    /\ ~fault
    /\ (lastStep \in {"textOk", "textFail"} /\ ~lastResp.ok)
         => /\ Phase = "Error" /\ ~loading
            /\ emotion = "neutral" /\ songs = <<>> /\ details = TextErrorMsg
    /\ (lastStep \in {"faceOk", "faceFail"} /\ ~lastResp.ok)
         => /\ Phase = "Error" /\ ~loading
            /\ emotion = "neutral" /\ songs = <<>> /\ details = FaceErrorMsg

\* C9 witness: an image analysis request has just failed.
C9_Witness == lastStep = "faceFail" /\ ~lastResp.ok /\ mounted

\* C10: after a timer expiry with no frame, no image request was issued, the
\* loading flag is cleared, details is the capture message, songs is empty and
\* emotion is unset.
C10_CaptureFailure ==
    lastStep = "captureFail"
        => /\ inflight = <<>>
           /\ ~loading
           /\ details = CaptureFailMsg
           /\ songs = <<>>
           /\ emotion = ""

\* C10 witness: the capture failed in a session that showed a result before
\* the activation.
C10_Witness == lastStep = "captureFail" /\ prePhase = "Result"

\* C11: under fairness of the timer and of the request completions every
\* Loading state of the mounted component is followed by a state that is not
\* Loading, and Loading is left only by the end of the operation its trigger
\* started: the text completion, the image completion or the capture failure.
C11_LoadingEnds ==
    /\ (mounted /\ loading) ~> (~mounted \/ ~loading)
    /\ [][(mounted /\ loading /\ ~loading')
            => \/ /\ inflight = <<"text">> /\ inflight' = <<>>
                  /\ lastStep' \in {"textOk", "textFail"}
               \/ /\ inflight = <<"image">> /\ inflight' = <<>>
                  /\ lastStep' \in {"faceOk", "faceFail"}
               \/ /\ inflight = <<>> /\ pendingTimers # {}
                  /\ lastStep' = "captureFail"]_vars

\* C11 witness: the capture cycle started from a result has run to its image
\* completion and left Loading.
C11_Witness ==
    mounted /\ ~loading /\ lastStep = "faceOk" /\ prePhase = "Result"

\* C12: when the image analysis request completes, webcamActive is false
\* whether the request succeeded or failed.
C12_CompletionDeactivates ==
    (mounted /\ lastStep \in {"faceOk", "faceFail"}) => ~webcamActive

\* C12 witness: the image request failed and the capture session is inactive.
C12_Witness == mounted /\ lastStep = "faceFail" /\ ~webcamActive /\ ~loading

\* C13: a 2xx response moves the session from Loading to Result with emotion,
\* details and songs equal to the response's fields, songs being empty when
\* the response has no songs field; a response with zero songs is a Result.
C13_SuccessResult ==
    (mounted /\ lastResp.ok /\ lastStep \in {"textOk", "textFail", "faceOk", "faceFail"})
        => /\ Phase = "Result"
           /\ emotion = lastResp.emotion
           /\ details = lastResp.details
           /\ songs = IF lastResp.hasSongs THEN lastResp.songs ELSE <<>>

\* C13 witness: a 2xx response carrying songs has been applied.
C13_Witness ==
    /\ mounted /\ lastStep = "textOk" /\ lastResp.ok
    /\ lastResp.hasSongs /\ lastResp.songs # <<>> /\ songs = lastResp.songs

\* C14: a press of Analyze Text with empty text issues no request and changes
\* no field of the session state.
C14_EmptyTextRejected ==
    [][(text = "" /\ lastStep' \in {"submitText", "submitIgnored"})
         => UNCHANGED <<inflight, emotion, songs, details, loading, outcome,
                        webcamActive, pendingTimers>>]_vars

\* C14 witness: Analyze Text was pressed with empty text while nothing was
\* loading, and a previous result is still shown.
C14_Witness ==
    /\ mounted /\ text = "" /\ lastStep = "submitIgnored"
    /\ ~loading /\ outcome = "Result" /\ inflight = <<>>

\* C15: from a Result or Error state the phase, the payload and the set of
\* requests change only by a fresh trigger (an accepted text submit or a
\* capture activation); expiry, completion and deactivation leave them alone.
C15_ResultStaysUntilTrigger ==
    [][(/\ mounted /\ ~loading /\ outcome \in {"Result", "Error"}
        /\ <<emotion, songs, details, loading, outcome, inflight>>'
             # <<emotion, songs, details, loading, outcome, inflight>>)
         => lastStep' \in {"submitText", "scanOn"}]_vars

\* C15 witness: the capture session was deactivated in the Error state a
\* failed capture left, and the diagnostic is still there.
C15_Witness ==
    /\ mounted /\ lastStep = "scanOff" /\ ~loading
    /\ outcome = "Error" /\ details = CaptureFailMsg

\* C16: a deactivation (toggle-off or teardown) leaves emotion, details,
\* songs and the loading flag as they were.
C16_DeactivateKeepsSession ==
    [][lastStep' \in {"scanOff", "teardown"}
         => UNCHANGED <<emotion, details, songs, loading, outcome>>]_vars

\* C16 witness: the capture session, still active after a failed capture, was
\* ended while a text analysis was in flight.
C16_Witness ==
    /\ lastStep = "teardown" /\ webcamActive
    /\ inflight = <<"text">> /\ loading

C18_FallbackDistinct ==
    /\ (mounted /\ lastStep = "textOk")
         => <<emotion, songs, details>> # <<"neutral", <<>>, TextErrorMsg>>
    /\ (mounted /\ lastStep = "faceOk")
         => <<emotion, songs, details>> # <<"neutral", <<>>, FaceErrorMsg>>

\* C19: on the mounted component the loading flag is set only while a capture
\* timer is pending or an analysis request is in flight.
C19_LoadingHasCause ==
    (mounted /\ loading) => (pendingTimers # {} \/ inflight # <<>>)

\* C19 witness: loading during the armed window, before any request.
C19_Witness ==
    mounted /\ loading /\ pendingTimers # {} /\ inflight = <<>>
====
